---- MODULE Spec2Model ----
(***************************************************************************)
(* superagent-work (src/work.ts): a project-local work tracker that keeps  *)
(* a SQLite table `work` (.work/work.db) and re-exports it to a JSONL file *)
(* (.work/work.jsonl) after every mutating command.                        *)
(*                                                                         *)
(* Strings that the program computes with (item IDs) are sequences of      *)
(* decimal digits, so that padStart, CAST(id AS INTEGER) and String(n) are *)
(* modelled by what they do.  Nullable TEXT columns that hold a string are *)
(* a string or SqlNull; nullable TEXT columns that hold JSON are <<>> (SQL *)
(* NULL) or <<v>> (the JSON text of v).  On the JavaScript side an absent  *)
(* string property is Undefined and an absent array property is <<>>.      *)
(***************************************************************************)
EXTENDS Integers, Sequences, FiniteSets, TLC

VARIABLES db, jsonl, clock, last, assigned, dangling, fs, procs

vars == <<db, jsonl, clock, last, assigned, dangling, fs, procs>>

\* Number of command invocations explored; the clock advances by one per
\* invocation, so it is also the largest timestamp.  MaxClock bounds the runs
\* of the whole command set, MaxSyncClock the runs of add, import and export,
\* MaxDepClock the runs of the dependency commands.
MaxClock == 3
MaxSyncClock == 4
MaxDepClock == 3
MaxInitClock == 4
MaxStaleClock == 3
MaxFieldClock == 3
MaxConcClock == 4
MaxCmdClock == 3
MaxConcAddClock == 4

-----------------------------------------------------------------------------
\* Values

SqlNull == "NULL"
Undefined == "undefined"

\* JavaScript truthiness of a string-or-absent value (x || null, if (!x)).
Truthy(s) == s \notin {SqlNull, Undefined, ""}

JSONstringify(v) == <<v>>
JSONparse(t) == t[1]

Seq2Set(s) == {s[i] : i \in 1..Len(s)}

\* s.map(f)
Map(f(_), s) == [i \in 1..Len(s) |-> f(s[i])]

-----------------------------------------------------------------------------
\* ID arithmetic

RECURSIVE CastInteger(_)
\* CAST(id AS INTEGER) of a string of decimal digits.
CastInteger(s) ==
    IF s = <<>> THEN 0
    ELSE 10 * CastInteger(SubSeq(s, 1, Len(s) - 1)) + s[Len(s)]

RECURSIVE String(_)
\* String(n) for a non-negative integer.
String(n) == IF n < 10 THEN <<n>> ELSE String(n \div 10) \o <<n % 10>>

RECURSIVE padStart(_, _)
\* s.padStart(w, "0")
padStart(s, w) == IF Len(s) >= w THEN s ELSE padStart(<<0>> \o s, w)

\* padId that hands the argument on as it was typed.
padId_astyped(id) == id

padId(id) == padStart(id, 3)

\* SELECT MAX(CAST(id AS INTEGER)) FROM work; NULL (here 0, as `|| 0` makes
\* it) on an empty table.
MaxCastId(rows) ==
    IF rows = <<>> THEN 0
    ELSE CHOOSE m \in {CastInteger(rows[i].id) : i \in 1..Len(rows)} :
           \A j \in 1..Len(rows) : CastInteger(rows[j].id) <= m

\* nextId that counts the rows instead of taking the largest ID.
nextId_count(rows) == padStart(String(Len(rows) + 1), 3)

nextId(rows) == padStart(String(MaxCastId(rows) + 1), 3)

-----------------------------------------------------------------------------
\* The table

\* SELECT * FROM work WHERE id = ?  (0: no row)
RowIndex(rows, id) ==
    IF \E i \in 1..Len(rows) : rows[i].id = id
    THEN CHOOSE i \in 1..Len(rows) : rows[i].id = id
    ELSE 0

HasRow(rows, id) == RowIndex(rows, id) # 0

\* InsertOk of a table whose id is no PRIMARY KEY.
InsertOk_nokey(rows, r) ==
    \A f \in {"title", "status", "type"} : r[f] \notin {SqlNull, Undefined}

\* The constraints of CREATE TABLE work: id PRIMARY KEY, and the NOT NULL
\* columns (a JavaScript undefined or null binds as NULL).
InsertOk(rows, r) ==
    /\ ~HasRow(rows, r.id)
    /\ \A f \in {"title", "status", "type"} : r[f] \notin {SqlNull, Undefined}

RECURSIVE InsertByCastId(_, _)
\* ORDER BY CAST(id AS INTEGER), one row at a time: the row goes behind the
\* rows whose key is not greater, so rows of equal key stay in rowid order.
InsertByCastId(sorted, r) ==
    IF sorted = <<>> THEN <<r>>
    ELSE IF CastInteger(sorted[Len(sorted)].id) <= CastInteger(r.id)
    THEN Append(sorted, r)
    ELSE Append(InsertByCastId(SubSeq(sorted, 1, Len(sorted) - 1), r),
                sorted[Len(sorted)])

RECURSIVE OrderByCastId(_)
OrderByCastId(rows) ==
    IF rows = <<>> THEN <<>>
    ELSE InsertByCastId(OrderByCastId(SubSeq(rows, 1, Len(rows) - 1)), rows[Len(rows)])

\* ORDER BY priority, CAST(id AS INTEGER)
PriorityBefore(r, q) ==
    \/ r.priority < q.priority
    \/ r.priority = q.priority /\ CastInteger(r.id) <= CastInteger(q.id)

RECURSIVE InsertByPriorityId(_, _)
InsertByPriorityId(sorted, r) ==
    IF sorted = <<>> THEN <<r>>
    ELSE IF PriorityBefore(sorted[Len(sorted)], r)
    THEN Append(sorted, r)
    ELSE Append(InsertByPriorityId(SubSeq(sorted, 1, Len(sorted) - 1), r),
                sorted[Len(sorted)])

RECURSIVE OrderByPriorityId(_)
OrderByPriorityId(rows) ==
    IF rows = <<>> THEN <<>>
    ELSE InsertByPriorityId(OrderByPriorityId(SubSeq(rows, 1, Len(rows) - 1)),
                            rows[Len(rows)])

rowToWorkItem(row) ==
    [id            |-> row.id,
     title         |-> row.title,
     status        |-> row.status,
     priority      |-> row.priority,
     type          |-> row.type,
     created       |-> row.created,
     updated       |-> row.updated,
     description   |-> IF Truthy(row.description) THEN row.description ELSE Undefined,
     blocked_by    |-> IF row.blocked_by # <<>> THEN <<JSONparse(row.blocked_by)>> ELSE <<>>,
     labels        |-> IF row.labels # <<>> THEN <<JSONparse(row.labels)>> ELSE <<>>,
     closed_reason |-> IF Truthy(row.closed_reason) THEN row.closed_reason ELSE Undefined,
     log           |-> IF row.log # <<>> THEN <<JSONparse(row.log)>> ELSE <<>>]

\* A line of work.jsonl: JSON text of an object, or text that JSON.parse
\* rejects.
Line(item) == [json |-> TRUE, item |-> item]

\* exportToJsonl without the ORDER BY.
exportToJsonl_unordered(rows) ==
    [exists |-> TRUE, lines |-> Map(Line, Map(rowToWorkItem, rows))]

\* The text exportToJsonl writes: one line per row, empty for an empty table.
exportToJsonl(rows) ==
    LET items == Map(rowToWorkItem, OrderByCastId(rows))
    IN [exists |-> TRUE, lines |-> Map(Line, items)]

-----------------------------------------------------------------------------
\* ImportRow that does not carry the log over.
ImportRow_nolog(item) ==
    [id            |-> item.id,
     title         |-> item.title,
     status        |-> item.status,
     priority      |-> item.priority,
     type          |-> item.type,
     created       |-> item.created,
     updated       |-> item.updated,
     description   |-> IF Truthy(item.description) THEN item.description ELSE SqlNull,
     blocked_by    |-> IF item.blocked_by # <<>> THEN JSONstringify(item.blocked_by[1]) ELSE <<>>,
     labels        |-> IF item.labels # <<>> THEN JSONstringify(item.labels[1]) ELSE <<>>,
     closed_reason |-> IF Truthy(item.closed_reason) THEN item.closed_reason ELSE SqlNull,
     log           |-> <<>>]

\* ImportRow that stores an empty list for an absent blocked_by or labels.
ImportRow_emptylists(item) ==
    [id            |-> item.id,
     title         |-> item.title,
     status        |-> item.status,
     priority      |-> item.priority,
     type          |-> item.type,
     created       |-> item.created,
     updated       |-> item.updated,
     description   |-> IF Truthy(item.description) THEN item.description ELSE SqlNull,
     blocked_by    |-> IF item.blocked_by # <<>> THEN JSONstringify(item.blocked_by[1])
                       ELSE JSONstringify(<<>>),
     labels        |-> IF item.labels # <<>> THEN JSONstringify(item.labels[1])
                       ELSE JSONstringify(<<>>),
     closed_reason |-> IF Truthy(item.closed_reason) THEN item.closed_reason ELSE SqlNull,
     log           |-> IF item.log # <<>> THEN JSONstringify(item.log[1]) ELSE <<>>]

\* The rows import inserts, one INSERT per record, until one is rejected.
ImportRow(item) ==
    [id            |-> item.id,
     title         |-> item.title,
     status        |-> item.status,
     priority      |-> item.priority,
     type          |-> item.type,
     created       |-> item.created,
     updated       |-> item.updated,
     description   |-> IF Truthy(item.description) THEN item.description ELSE SqlNull,
     blocked_by    |-> IF item.blocked_by # <<>> THEN JSONstringify(item.blocked_by[1]) ELSE <<>>,
     labels        |-> IF item.labels # <<>> THEN JSONstringify(item.labels[1]) ELSE <<>>,
     closed_reason |-> IF Truthy(item.closed_reason) THEN item.closed_reason ELSE SqlNull,
     log           |-> IF item.log # <<>> THEN JSONstringify(item.log[1]) ELSE <<>>]

RECURSIVE InsertAll(_, _)
InsertAll(rows, items) ==
    IF items = <<>> THEN rows
    ELSE IF InsertOk(rows, ImportRow(Head(items)))
         THEN InsertAll(Append(rows, ImportRow(Head(items))), Tail(items))
         ELSE rows

\* Update that leaves the updated row alone in the table.
Update_onlyrow(rows, id, changes) ==
    LET r == rows[RowIndex(rows, id)]
    IN <<[f \in DOMAIN r |-> IF f \in DOMAIN changes THEN changes[f] ELSE r[f]]>>

\* Update that writes the new updated into every row.
Update_touchall(rows, id, changes) ==
    [i \in 1..Len(rows) |->
        IF rows[i].id = id
        THEN [f \in DOMAIN rows[i] |->
                IF f \in DOMAIN changes THEN changes[f] ELSE rows[i][f]]
        ELSE [f \in DOMAIN rows[i] |->
                IF f = "updated" /\ f \in DOMAIN changes THEN changes[f] ELSE rows[i][f]]]

\* UPDATE work SET ... WHERE id = ?
Update(rows, id, changes) ==
    [i \in 1..Len(rows) |->
        IF rows[i].id = id
        THEN [f \in DOMAIN rows[i] |->
                IF f \in DOMAIN changes THEN changes[f] ELSE rows[i][f]]
        ELSE rows[i]]

-----------------------------------------------------------------------------
\* Dependency queries

\* closedIds that takes every row, whatever its status.
closedIds_all(rows) == {rows[i].id : i \in 1..Len(rows)}

closedIds(rows) == {rows[i].id : i \in {j \in 1..Len(rows) : rows[j].status = "closed"}}

NonClosed(rows) == SelectSeq(OrderByPriorityId(rows), LAMBDA r : r.status # "closed")

IsReady(item, closed) ==
    \/ item.blocked_by = <<>>
    \/ Len(item.blocked_by[1]) = 0
    \/ \A k \in 1..Len(item.blocked_by[1]) : item.blocked_by[1][k] \in closed

\* IsBlocked of an item that has any blocker, closed or not.
IsBlocked_any(item, closed) ==
    /\ item.blocked_by # <<>>
    /\ Len(item.blocked_by[1]) # 0

IsBlocked(item, closed) ==
    /\ item.blocked_by # <<>>
    /\ Len(item.blocked_by[1]) # 0
    /\ \E k \in 1..Len(item.blocked_by[1]) : item.blocked_by[1][k] \notin closed

\* list that orders by ID alone.
list_byid(rows, a) ==
    Map(rowToWorkItem,
        SelectSeq(OrderByCastId(rows),
                  LAMBDA r : IF Truthy(a.status) THEN r.status = a.status
                             ELSE r.status # "closed"))

\* work list [--status=X]: of the flags only --status is read.
list(rows, a) ==
    Map(rowToWorkItem,
        SelectSeq(OrderByPriorityId(rows),
                  LAMBDA r : IF Truthy(a.status) THEN r.status = a.status
                             ELSE r.status # "closed"))

\* ready that does not look at blocked_by.
ready_unfiltered(rows) == Map(rowToWorkItem, NonClosed(rows))

ready(rows) ==
    SelectSeq(Map(rowToWorkItem, NonClosed(rows)),
              LAMBDA item : IsReady(item, closedIds(rows)))

blocked(rows) ==
    SelectSeq(Map(rowToWorkItem,
                  SelectSeq(NonClosed(rows), LAMBDA r : r.blocked_by # <<>>)),
              LAMBDA item : IsBlocked(item, closedIds(rows)))

\* The entries of the blocked_by lists of the table, as pairs <<id, blockerId>>.
EdgesOf(rows) ==
    UNION {{<<rows[i].id, b>> : b \in Seq2Set(JSONparse(rows[i].blocked_by))} :
              i \in {j \in 1..Len(rows) : rows[j].blocked_by # <<>>}}

\* The entries whose blockerId is the ID of no row.
DanglingEdges(rows) == {e \in EdgesOf(rows) : ~HasRow(rows, e[2])}

-----------------------------------------------------------------------------
\* Inputs

\* ID arguments as typed on the command line.
ArgIds == {<<1>>, <<0, 0, 1>>, <<2>>}

AddArgs == {[type |-> Undefined, priority |-> <<>>],
            [type |-> "bug", priority |-> <<1>>]}

\* close <id> [reason]: no reason, an empty reason argument, a reason.
CloseReasons == {SqlNull, "", "done"}

EditArgs == {[field |-> "title", value |-> "B"],
             [field |-> "priority", value |-> <<0>>],
             [field |-> "assignee", value |-> "me"],
             [field |-> "status", value |-> "closed"]}

LogAgents == {Undefined, "bot"}

\* --priority=7 and edit <id> priority 9, next to the arguments above.
WideAddArgs == AddArgs \cup {[type |-> Undefined, priority |-> <<7>>]}

WideEditArgs == EditArgs \cup {[field |-> "priority", value |-> <<9>>]}

LabelNames == {"urgent", "bug"}

\* list flags: --status=X (absent, empty, a status), --type=X and --label=X.
ListArgs == [status : {Undefined, "", "open", "in_progress", "closed"},
             type : {Undefined, "bug"},
             label : {Undefined, "urgent"}]

Item(id, title, status, blockers, reason) ==
    [id |-> id, title |-> title, status |-> status, priority |-> 2, type |-> "task",
     created |-> 1, updated |-> 1, description |-> Undefined,
     blocked_by |-> blockers, labels |-> <<>>, closed_reason |-> reason, log |-> <<>>]

Garbage == [json |-> FALSE, item |-> Item(<<>>, "", "", <<>>, Undefined)]

File(lines) == [exists |-> TRUE, lines |-> lines]

\* Contents work.jsonl can have after an edit made outside the tool (a git
\* pull, a merge, an editor): files of well-formed records with distinct IDs,
MergedFiles ==
    {File(<<>>),
     \* records out of ID order, blocked by a closed and by an open item
     File(<<Line(Item(<<0, 0, 2>>, "B", "open", << <<(<<0, 0, 1>>)>> >>, Undefined)),
            Line(Item(<<0, 0, 1>>, "A", "closed", <<>>, "done")),
            Line(Item(<<0, 0, 3>>, "A", "open", << <<(<<0, 0, 2>>)>> >>, Undefined))>>),
     \* four-digit and unpadded IDs, a blocker that names no item
     File(<<Line(Item(<<1, 0, 0, 0>>, "A", "open", <<>>, Undefined)),
            Line(Item(<<9, 9, 9>>, "A", "open", <<>>, Undefined)),
            Line(Item(<<1>>, "A", "open", << <<(<<0, 0, 7>>)>> >>, Undefined))>>)}

\* and files that are missing or that import cannot load completely.
BrokenFiles ==
    {[exists |-> FALSE, lines |-> <<>>],
     \* a repeated ID
     File(<<Line(Item(<<0, 0, 1>>, "A", "open", <<>>, Undefined)),
            Line(Item(<<0, 0, 1>>, "B", "open", <<>>, Undefined))>>),
     \* a record without a title
     File(<<Line(Item(<<0, 0, 1>>, "A", "open", <<>>, Undefined)),
            Line(Item(<<0, 0, 2>>, Undefined, "open", <<>>, Undefined))>>),
     \* a line that is not JSON
     File(<<Line(Item(<<0, 0, 1>>, "A", "open", <<>>, Undefined)), Garbage>>)}

ExternalFiles == MergedFiles \cup BrokenFiles

\* Files of well-formed records whose blocked_by lists a merge has left
\* pointing at one another, and at an item that is not in the file.
DepFiles ==
    {File(<<Line(Item(<<0, 0, 1>>, "A", "open", << <<(<<0, 0, 2>>)>> >>, Undefined)),
            Line(Item(<<0, 0, 2>>, "B", "open", << <<(<<0, 0, 1>>)>> >>, Undefined))>>),
     File(<<Line(Item(<<0, 0, 1>>, "A", "open", << <<(<<0, 0, 2>>)>> >>, Undefined))>>)}

\* Two invocations of work that can run at the same time.  Each runs start or
\* add (cmd) and is at one place of it: not started, after nextId (id holds
\* the ID it computed), after its UPDATE or INSERT, after the SELECT of
\* exportToJsonl (rows holds what it read), or ended.
Procs == {1, 2}

Idle == [pc |-> "idle", cmd |-> "none", id |-> <<>>, rows |-> <<>>]

-----------------------------------------------------------------------------
Init ==
    /\ db = <<>>
    /\ jsonl = File(<<>>)
    /\ clock = 0
    /\ last = [cmd |-> "init", res |-> "ok"]
    /\ assigned = {}
    /\ dangling = {}
    /\ fs = [workDir |-> TRUE, jsonlWritable |-> TRUE]
    /\ procs = [p \in Procs |-> Idle]

\* A directory in which init has not run: no .work, no table, no file.
InitFresh ==
    /\ db = <<>>
    /\ jsonl = [exists |-> FALSE, lines |-> <<>>]
    /\ clock = 0
    /\ last = [cmd |-> "none", res |-> "ok"]
    /\ assigned = {}
    /\ dangling = {}
    /\ fs = [workDir |-> FALSE, jsonlWritable |-> TRUE]
    /\ procs = [p \in Procs |-> Idle]

\* The invocation ends: what ran and how it ended.  (dangling is history: the
\* blocked_by entries that named no item at some time and have been in the
\* item's blocked_by ever since.)
Ends(cmd, res) ==
    /\ clock' = clock + 1
    /\ last' = [cmd |-> cmd, res |-> res]
    /\ dangling' = (dangling \cup DanglingEdges(db')) \cap EdgesOf(db')

\* The commands that never call exportToJsonl.
NoExportCmds == {"import", "list", "show", "ready", "blocked"}

\* A command other than init ends.  Every other command that gets to its end
\* has called exportToJsonl, whose writeFileSync throws when work.jsonl cannot
\* be written.
Done(cmd, res) ==
    /\ Ends(cmd, IF res = "ok" /\ cmd \notin NoExportCmds /\ ~fs.jsonlWritable
                 THEN "export_error" ELSE res)
    /\ UNCHANGED <<fs, procs>>

\* now(): the time of this invocation.
now == clock + 1

\* Written of an export that adds the line of the newest row to the file.
Written_appended(rows) ==
    IF fs.jsonlWritable /\ rows # <<>>
    THEN File(jsonl.lines \o <<Line(rowToWorkItem(rows[Len(rows)]))>>)
    ELSE jsonl

\* work.jsonl after exportToJsonl: rewritten in full, or as it was when
\* writeFileSync cannot open it for writing.
Written(rows) == IF fs.jsonlWritable THEN exportToJsonl(rows) ELSE jsonl

\* The command changed the table and re-exported it.
Mutated(rows) ==
    /\ db' = rows
    /\ jsonl' = Written(rows)

\* Untouched of a command that exports before it looks the row up.
Untouched_exported ==
    /\ db' = db
    /\ jsonl' = exportToJsonl(db)

\* The command ended without touching the table or the file.
Untouched == UNCHANGED <<db, jsonl>>

\* The row add inserts.
AddRow(id, a) ==
    [id |-> id, title |-> "A", status |-> "open",
     priority |-> IF a.priority # <<>> THEN CastInteger(a.priority) ELSE 2,
     type |-> IF Truthy(a.type) THEN a.type ELSE "task",
     created |-> now, updated |-> now,
     description |-> SqlNull, blocked_by |-> <<>>, labels |-> <<>>,
     closed_reason |-> SqlNull, log |-> <<>>]

add(a) ==
    LET id == nextId(db)
        row == AddRow(id, a)
    IN IF InsertOk(db, row)
       THEN /\ Mutated(Append(db, row))
            /\ assigned' = assigned \cup {id}
            /\ Done("add", "ok")
       ELSE /\ Untouched
            /\ UNCHANGED assigned
            /\ Done("add", "constraint_error")

start(id) ==
    /\ UNCHANGED assigned
    /\ IF ~HasRow(db, padId(id))
       THEN Untouched /\ Done("start", "not_found")
       ELSE /\ Mutated(Update(db, padId(id), [status |-> "in_progress", updated |-> now]))
            /\ Done("start", "ok")

\* close that keeps the reason of an earlier close when none is given.
close_keepreason(id, reason) ==
    /\ UNCHANGED assigned
    /\ IF ~HasRow(db, padId(id))
       THEN Untouched /\ Done("close", "not_found")
       ELSE /\ Mutated(Update(db, padId(id),
                   IF reason = SqlNull
                   THEN [status |-> "closed", updated |-> now]
                   ELSE [status |-> "closed", updated |-> now, closed_reason |-> reason]))
            /\ Done("close", "ok")

\* close that leaves updated as it was.
close_keepupdated(id, reason) ==
    /\ UNCHANGED assigned
    /\ IF ~HasRow(db, padId(id))
       THEN Untouched /\ Done("close", "not_found")
       ELSE /\ Mutated(Update(db, padId(id),
                              [status |-> "closed", closed_reason |-> reason]))
            /\ Done("close", "ok")

close(id, reason) ==
    /\ UNCHANGED assigned
    /\ IF ~HasRow(db, padId(id))
       THEN Untouched /\ Done("close", "not_found")
       ELSE /\ Mutated(Update(db, padId(id),
                              [status |-> "closed", updated |-> now,
                               closed_reason |-> reason]))
            /\ Done("close", "ok")

\* reopen that leaves closed_reason as it was.
reopen_keepreason(id) ==
    /\ UNCHANGED assigned
    /\ IF ~HasRow(db, padId(id))
       THEN Untouched /\ Done("reopen", "not_found")
       ELSE /\ Mutated(Update(db, padId(id), [status |-> "open", updated |-> now]))
            /\ Done("reopen", "ok")

reopen(id) ==
    /\ UNCHANGED assigned
    /\ IF ~HasRow(db, padId(id))
       THEN Untouched /\ Done("reopen", "not_found")
       ELSE /\ Mutated(Update(db, padId(id),
                              [status |-> "open", updated |-> now,
                               closed_reason |-> SqlNull]))
            /\ Done("reopen", "ok")

\* log that stores the new entry alone.
log_overwrite(id, agent) ==
    /\ UNCHANGED assigned
    /\ IF ~HasRow(db, padId(id))
       THEN Untouched /\ Done("log", "not_found")
       ELSE LET entry == [time |-> now, agent |-> agent, text |-> "m"]
            IN /\ Mutated(Update(db, padId(id),
                                 [log |-> JSONstringify(<<entry>>), updated |-> now]))
               /\ Done("log", "ok")

log(id, agent) ==
    /\ UNCHANGED assigned
    /\ IF ~HasRow(db, padId(id))
       THEN Untouched /\ Done("log", "not_found")
       ELSE LET row == db[RowIndex(db, padId(id))]
                entry == [time |-> now, agent |-> agent, text |-> "m"]
                existingLog == IF row.log # <<>> THEN JSONparse(row.log) ELSE <<>>
            IN /\ Mutated(Update(db, padId(id),
                                 [log |-> JSONstringify(Append(existingLog, entry)),
                                  updated |-> now]))
               /\ Done("log", "ok")

\* list, ready, blocked: SELECTs, then printing.
Query(cmd) ==
    /\ Untouched
    /\ UNCHANGED assigned
    /\ Done(cmd, "ok")

show(id) ==
    /\ Untouched
    /\ UNCHANGED assigned
    /\ Done("show", IF HasRow(db, padId(id)) THEN "ok" ELSE "not_found")

\* block that stamps the item when the blocker is already there.
block_touch(id, blockerId) ==
    /\ UNCHANGED assigned
    /\ IF ~HasRow(db, padId(id)) \/ ~HasRow(db, padId(blockerId))
       THEN Untouched /\ Done("block", "not_found")
       ELSE LET row == db[RowIndex(db, padId(id))]
                blockedBy == IF row.blocked_by # <<>> THEN JSONparse(row.blocked_by)
                             ELSE <<>>
                paddedBlockerId == padId(blockerId)
            IN IF paddedBlockerId \in Seq2Set(blockedBy)
               THEN Mutated(Update(db, padId(id), [updated |-> now])) /\ Done("block", "noop")
               ELSE /\ Mutated(Update(db, padId(id),
                           [blocked_by |-> JSONstringify(Append(blockedBy, paddedBlockerId)),
                            updated |-> now]))
                    /\ Done("block", "ok")

\* block without the includes() test.
block_nocheck(id, blockerId) ==
    /\ UNCHANGED assigned
    /\ IF ~HasRow(db, padId(id)) \/ ~HasRow(db, padId(blockerId))
       THEN Untouched /\ Done("block", "not_found")
       ELSE LET row == db[RowIndex(db, padId(id))]
                blockedBy == IF row.blocked_by # <<>> THEN JSONparse(row.blocked_by)
                             ELSE <<>>
                paddedBlockerId == padId(blockerId)
            IN /\ Mutated(Update(db, padId(id),
                      [blocked_by |-> JSONstringify(Append(blockedBy, paddedBlockerId)),
                       updated |-> now]))
               /\ Done("block", "ok")

\* block that does not look the blocker up.
block_anyblocker(id, blockerId) ==
    /\ UNCHANGED assigned
    /\ IF ~HasRow(db, padId(id))
       THEN Untouched /\ Done("block", "not_found")
       ELSE LET row == db[RowIndex(db, padId(id))]
                blockedBy == IF row.blocked_by # <<>> THEN JSONparse(row.blocked_by)
                             ELSE <<>>
                paddedBlockerId == padId(blockerId)
            IN IF paddedBlockerId \in Seq2Set(blockedBy)
               THEN Untouched /\ Done("block", "noop")
               ELSE /\ Mutated(Update(db, padId(id),
                           [blocked_by |-> JSONstringify(Append(blockedBy, paddedBlockerId)),
                            updated |-> now]))
                    /\ Done("block", "ok")

block(id, blockerId) ==
    /\ UNCHANGED assigned
    /\ IF ~HasRow(db, padId(id)) \/ ~HasRow(db, padId(blockerId))
       THEN Untouched /\ Done("block", "not_found")
       ELSE LET row == db[RowIndex(db, padId(id))]
                blockedBy == IF row.blocked_by # <<>> THEN JSONparse(row.blocked_by)
                             ELSE <<>>
                paddedBlockerId == padId(blockerId)
            IN IF paddedBlockerId \in Seq2Set(blockedBy)
               THEN Untouched /\ Done("block", "noop")
               ELSE /\ Mutated(Update(db, padId(id),
                           [blocked_by |-> JSONstringify(Append(blockedBy, paddedBlockerId)),
                            updated |-> now]))
                    /\ Done("block", "ok")

\* blockedBy.splice(blockedBy.indexOf(x), 1): drop the first occurrence.
Splice(s, x) ==
    LET idx == CHOOSE i \in 1..Len(s) : s[i] = x /\ \A j \in 1..(i - 1) : s[j] # x
    IN SubSeq(s, 1, idx - 1) \o SubSeq(s, idx + 1, Len(s))

\* unblock that stores the list it is left with, also when it is empty.
unblock_emptylist(id, blockerId) ==
    /\ UNCHANGED assigned
    /\ IF ~HasRow(db, padId(id))
       THEN Untouched /\ Done("unblock", "not_found")
       ELSE LET row == db[RowIndex(db, padId(id))]
                blockedBy == IF row.blocked_by # <<>> THEN JSONparse(row.blocked_by)
                             ELSE <<>>
                paddedBlockerId == padId(blockerId)
            IN IF paddedBlockerId \notin Seq2Set(blockedBy)
               THEN Untouched /\ Done("unblock", "noop")
               ELSE LET rest == Splice(blockedBy, paddedBlockerId)
                    IN /\ Mutated(Update(db, padId(id),
                              [blocked_by |-> JSONstringify(rest), updated |-> now]))
                       /\ Done("unblock", "ok")

unblock(id, blockerId) ==
    /\ UNCHANGED assigned
    /\ IF ~HasRow(db, padId(id))
       THEN Untouched /\ Done("unblock", "not_found")
       ELSE LET row == db[RowIndex(db, padId(id))]
                blockedBy == IF row.blocked_by # <<>> THEN JSONparse(row.blocked_by)
                             ELSE <<>>
                paddedBlockerId == padId(blockerId)
            IN IF paddedBlockerId \notin Seq2Set(blockedBy)
               THEN Untouched /\ Done("unblock", "noop")
               ELSE LET rest == Splice(blockedBy, paddedBlockerId)
                    IN /\ Mutated(Update(db, padId(id),
                              [blocked_by |-> IF Len(rest) # 0 THEN JSONstringify(rest)
                                              ELSE <<>>,
                               updated |-> now]))
                       /\ Done("unblock", "ok")

\* label without the test for a label the item already has.
label_nocheck(id, l) ==
    /\ UNCHANGED assigned
    /\ IF ~HasRow(db, padId(id))
       THEN Untouched /\ Done("label", "not_found")
       ELSE LET row == db[RowIndex(db, padId(id))]
                labels == IF row.labels # <<>> THEN JSONparse(row.labels) ELSE <<>>
            IN /\ Mutated(Update(db, padId(id),
                      [labels |-> JSONstringify(Append(labels, l)), updated |-> now]))
               /\ Done("label", "ok")

\* label <id> <label>: "not found" for an ID without item, "already has
\* label" and nothing else when the label is there, else the label is added.
label(id, l) ==
    /\ UNCHANGED assigned
    /\ IF ~HasRow(db, padId(id))
       THEN Untouched /\ Done("label", "not_found")
       ELSE LET row == db[RowIndex(db, padId(id))]
                labels == IF row.labels # <<>> THEN JSONparse(row.labels) ELSE <<>>
            IN IF l \in Seq2Set(labels)
               THEN Untouched /\ Done("label", "noop")
               ELSE /\ Mutated(Update(db, padId(id),
                           [labels |-> JSONstringify(Append(labels, l)), updated |-> now]))
                    /\ Done("label", "ok")

\* unlabel <id> <label>: "not found" for an ID without item, "doesn't have
\* label" and nothing else when the label is not there, else it is removed.
unlabel(id, l) ==
    /\ UNCHANGED assigned
    /\ IF ~HasRow(db, padId(id))
       THEN Untouched /\ Done("unlabel", "not_found")
       ELSE LET row == db[RowIndex(db, padId(id))]
                labels == IF row.labels # <<>> THEN JSONparse(row.labels) ELSE <<>>
            IN IF l \notin Seq2Set(labels)
               THEN Untouched /\ Done("unlabel", "noop")
               ELSE LET rest == Splice(labels, l)
                    IN /\ Mutated(Update(db, padId(id),
                              [labels |-> IF Len(rest) # 0 THEN JSONstringify(rest)
                                          ELSE <<>>,
                               updated |-> now]))
                       /\ Done("unlabel", "ok")

validFields == {"title", "priority", "type", "description"}

edit(id, a) ==
    /\ UNCHANGED assigned
    /\ IF ~HasRow(db, padId(id))
       THEN Untouched /\ Done("edit", "not_found")
       ELSE IF a.field \notin validFields
       THEN Untouched /\ Done("edit", "unknown_field")
       ELSE LET sqlValue == IF a.field = "priority" THEN CastInteger(a.value)
                            ELSE a.value
            IN /\ Mutated(Update(db, padId(id),
                                 [f \in {a.field, "updated"} |->
                                    IF f = "updated" THEN now ELSE sqlValue]))
               /\ Done("edit", "ok")

\* content.split("\n").map(JSON.parse)
decode(file) == [k \in 1..Len(file.lines) |-> file.lines[k].item]

\* importRows without the DELETE FROM work.
importRows_append(rows, items) ==
    [rows |-> InsertAll(rows, items),
     ok   |-> Len(InsertAll(rows, items)) = Len(rows) + Len(items)]

\* DELETE FROM work, then one INSERT per record; a rejected INSERT throws and
\* ends the command with the rows inserted so far.
importRows(rows, items) ==
    [rows |-> InsertAll(<<>>, items),
     ok   |-> Len(InsertAll(<<>>, items)) = Len(items)]

\* The table import leaves behind.
importDb(rows, file) ==
    IF ~file.exists THEN rows
    ELSE IF file.lines = <<>> THEN rows
    ELSE IF \E k \in 1..Len(file.lines) : ~file.lines[k].json THEN rows
    ELSE importRows(rows, decode(file)).rows

\* How import ends.
importResult(rows, file) ==
    IF ~file.exists THEN "no_file"
    ELSE IF file.lines = <<>> THEN "nothing_to_import"
    ELSE IF \E k \in 1..Len(file.lines) : ~file.lines[k].json THEN "parse_error"
    ELSE IF importRows(rows, decode(file)).ok THEN "ok"
    ELSE "constraint_error"

import ==
    /\ db' = importDb(db, jsonl)
    /\ UNCHANGED <<jsonl, assigned>>
    /\ Done("import", importResult(db, jsonl))

export ==
    /\ jsonl' = Written(db)
    /\ UNCHANGED <<db, assigned>>
    /\ Done("export", "ok")

\* work.jsonl is changed outside the tool, between two invocations (two edits
\* in a row amount to the second one).
ExternalEdit(files) ==
    /\ last.cmd # "external_edit"
    /\ \E f \in files : f # jsonl /\ jsonl' = f
    /\ last' = [cmd |-> "external_edit", res |-> "ok"]
    /\ UNCHANGED <<db, clock, assigned, dangling, fs, procs>>

\* init that writes its empty table and file whether or not .work exists.
init_anew ==
    /\ db' = <<>>
    /\ jsonl' = File(<<>>)
    /\ fs' = [fs EXCEPT !.workDir = TRUE]
    /\ UNCHANGED <<assigned, procs>>
    /\ Ends("init", "ok")

init ==
    IF fs.workDir
    THEN /\ UNCHANGED <<db, jsonl, assigned, fs, procs>>
         /\ Ends("init", "exists")
    ELSE /\ db' = <<>>
         /\ jsonl' = File(<<>>)
         /\ fs' = [fs EXCEPT !.workDir = TRUE]
         /\ UNCHANGED <<assigned, procs>>
         /\ Ends("init", "ok")

\* A command other than init where no .work directory is found: getWorkDir
\* prints the error and exits.
NoWorkDir(cmd) ==
    /\ ~fs.workDir
    /\ Untouched
    /\ UNCHANGED assigned
    /\ Done(cmd, "no_work_dir")

\* Invocation p of start <id> runs its SELECT and, for a row it finds, its
\* UPDATE; for an ID without row it ends with "not found".
startUpdate(p, id) ==
    /\ procs[p].pc = "idle"
    /\ clock' = clock + 1
    /\ UNCHANGED <<jsonl, assigned, fs>>
    /\ IF ~HasRow(db, padId(id))
       THEN /\ db' = db
            /\ procs' = [procs EXCEPT ![p].pc = "done", ![p].cmd = "start"]
            /\ last' = [cmd |-> "start", res |-> "not_found"]
       ELSE /\ db' = Update(db, padId(id), [status |-> "in_progress", updated |-> now])
            /\ procs' = [procs EXCEPT ![p].pc = "updated", ![p].cmd = "start"]
            /\ UNCHANGED last
    /\ dangling' = (dangling \cup DanglingEdges(db')) \cap EdgesOf(db')

\* Invocation p of add computes the ID of its item.
addNextId(p) ==
    /\ procs[p].pc = "idle"
    /\ procs' = [procs EXCEPT ![p].pc = "computed", ![p].cmd = "add", ![p].id = nextId(db)]
    /\ UNCHANGED <<db, jsonl, clock, last, assigned, dangling, fs>>

\* Invocation p of add runs its INSERT with the ID it computed; a rejected
\* INSERT throws and ends the invocation.
addInsert(p, a) ==
    /\ procs[p].pc = "computed"
    /\ clock' = clock + 1
    /\ UNCHANGED <<jsonl, fs>>
    /\ LET row == AddRow(procs[p].id, a)
       IN IF InsertOk(db, row)
          THEN /\ db' = Append(db, row)
               /\ assigned' = assigned \cup {procs[p].id}
               /\ procs' = [procs EXCEPT ![p].pc = "updated"]
               /\ UNCHANGED last
          ELSE /\ db' = db
               /\ UNCHANGED assigned
               /\ procs' = [procs EXCEPT ![p].pc = "done"]
               /\ last' = [cmd |-> "add", res |-> "constraint_error"]
    /\ dangling' = (dangling \cup DanglingEdges(db')) \cap EdgesOf(db')

\* Invocation p is in exportToJsonl and reads all rows.
exportRead(p) ==
    /\ procs[p].pc = "updated"
    /\ procs' = [procs EXCEPT ![p].pc = "read", ![p].rows = db]
    /\ UNCHANGED <<db, jsonl, clock, last, assigned, dangling, fs>>

\* exportWrite that reads the rows again as it writes.
exportWrite_reread(p) ==
    /\ procs[p].pc = "read"
    /\ jsonl' = Written(db)
    /\ procs' = [procs EXCEPT ![p].pc = "done"]
    /\ last' = [cmd |-> procs[p].cmd,
                res |-> IF fs.jsonlWritable THEN "ok" ELSE "export_error"]
    /\ UNCHANGED <<db, clock, assigned, dangling, fs>>

\* Invocation p writes the rows it read to work.jsonl and ends.
exportWrite(p) ==
    /\ procs[p].pc = "read"
    /\ jsonl' = Written(procs[p].rows)
    /\ procs' = [procs EXCEPT ![p].pc = "done"]
    /\ last' = [cmd |-> procs[p].cmd,
                res |-> IF fs.jsonlWritable THEN "ok" ELSE "export_error"]
    /\ UNCHANGED <<db, clock, assigned, dangling, fs>>

\* The permissions of work.jsonl are changed outside the tool.
Chmod ==
    /\ last.cmd # "chmod"
    /\ fs.workDir
    /\ fs' = [fs EXCEPT !.jsonlWritable = ~@]
    /\ last' = [cmd |-> "chmod", res |-> "ok"]
    /\ UNCHANGED <<db, jsonl, clock, assigned, dangling, procs>>

Next ==
    \/ clock < MaxClock /\ \E a \in AddArgs : add(a)
    \/ clock < MaxClock /\ \E id \in ArgIds : start(id)
    \/ clock < MaxClock /\ \E id \in ArgIds, reason \in CloseReasons : close(id, reason)
    \/ clock < MaxClock /\ \E id \in ArgIds : reopen(id)
    \/ clock < MaxClock /\ \E id \in ArgIds, agent \in LogAgents : log(id, agent)
    \/ clock < MaxClock /\ \E id \in ArgIds, blockerId \in ArgIds : block(id, blockerId)
    \/ clock < MaxClock /\ \E id \in ArgIds, blockerId \in ArgIds : unblock(id, blockerId)
    \/ clock < MaxClock /\ \E id \in ArgIds, a \in EditArgs : edit(id, a)
    \/ clock < MaxClock /\ import
    \/ clock < MaxClock /\ export
    \/ clock < MaxClock /\ ExternalEdit(ExternalFiles)

Spec == Init /\ [][Next]_vars

\* The synchronisation commands alone, in longer runs.
NextSync ==
    \/ clock < MaxSyncClock /\ \E a \in AddArgs : add(a)
    \/ clock < MaxSyncClock /\ \E id \in ArgIds, reason \in CloseReasons : close(id, reason)
    \/ clock < MaxSyncClock /\ import
    \/ clock < MaxSyncClock /\ export
    \/ clock < MaxSyncClock /\ ExternalEdit(MergedFiles)

SpecSync == Init /\ [][NextSync]_vars

\* The dependency commands, on stores loaded from files with blocking cycles
\* and blockers that name no item.
NextDeps ==
    \/ clock < MaxDepClock /\ \E a \in AddArgs : add(a)
    \/ clock < MaxDepClock /\ \E id \in ArgIds : start(id)
    \/ clock < MaxDepClock /\ \E id \in ArgIds, reason \in CloseReasons : close(id, reason)
    \/ clock < MaxDepClock /\ \E id \in ArgIds : reopen(id)
    \/ clock < MaxDepClock /\ \E id \in ArgIds, blockerId \in ArgIds : block(id, blockerId)
    \/ clock < MaxDepClock /\ \E id \in ArgIds, blockerId \in ArgIds : unblock(id, blockerId)
    \/ clock < MaxDepClock /\ import
    \/ clock < MaxDepClock /\ ExternalEdit(DepFiles)

SpecDeps == Init /\ [][NextDeps]_vars

\* From a directory without .work: init and the commands around it.
NextInit ==
    \/ clock < MaxInitClock /\ init
    \/ clock < MaxInitClock /\ \E cmd \in {"add", "close", "import", "export"} : NoWorkDir(cmd)
    \/ clock < MaxInitClock /\ fs.workDir /\ \E a \in AddArgs : add(a)
    \/ clock < MaxInitClock /\ fs.workDir
          /\ \E id \in ArgIds, reason \in CloseReasons : close(id, reason)
    \/ clock < MaxInitClock /\ fs.workDir /\ import
    \/ clock < MaxInitClock /\ fs.workDir /\ export
    \/ clock < MaxInitClock /\ fs.workDir /\ ExternalEdit(MergedFiles)

SpecInit == InitFresh /\ [][NextInit]_vars

\* The commands that write an item's priority and labels.
NextFields ==
    \/ clock < MaxFieldClock /\ \E a \in WideAddArgs : add(a)
    \/ clock < MaxFieldClock /\ \E id \in ArgIds, a \in WideEditArgs : edit(id, a)
    \/ clock < MaxFieldClock /\ \E id \in ArgIds, l \in LabelNames : label(id, l)
    \/ clock < MaxFieldClock /\ \E id \in ArgIds, l \in LabelNames : unlabel(id, l)

SpecFields == Init /\ [][NextFields]_vars

\* Items are added one invocation at a time; then two invocations of start run
\* with their steps interleaved.
NextConc ==
    \/ /\ clock < MaxConcClock - 2
       /\ \A p \in Procs : procs[p].pc = "idle"
       /\ \E a \in AddArgs : add(a)
    \/ clock < MaxConcClock /\ \E p \in Procs, id \in ArgIds : startUpdate(p, id)
    \/ \E p \in Procs : exportRead(p)
    \/ \E p \in Procs : exportWrite(p)

SpecConc == Init /\ [][NextConc]_vars

\* Items are added one invocation at a time; then two invocations of add run
\* with their steps interleaved.
NextConcAdd ==
    \/ /\ clock < MaxConcAddClock - 2
       /\ \A p \in Procs : procs[p].pc = "idle"
       /\ \E a \in AddArgs : add(a)
    \/ \E p \in Procs : addNextId(p)
    \/ clock < MaxConcAddClock /\ \E p \in Procs, a \in AddArgs : addInsert(p, a)
    \/ \E p \in Procs : exportRead(p)
    \/ \E p \in Procs : exportWrite(p)

SpecConcAdd == Init /\ [][NextConcAdd]_vars

\* The commands on items and the read-only commands, without import; the file
\* can be edited outside the tool.
NextCmds ==
    \/ clock < MaxCmdClock /\ \E a \in AddArgs : add(a)
    \/ clock < MaxCmdClock /\ \E id \in ArgIds : start(id)
    \/ clock < MaxCmdClock /\ \E id \in ArgIds, reason \in CloseReasons : close(id, reason)
    \/ clock < MaxCmdClock /\ \E id \in ArgIds : reopen(id)
    \/ clock < MaxCmdClock /\ \E id \in ArgIds, agent \in LogAgents : log(id, agent)
    \/ clock < MaxCmdClock /\ \E id \in ArgIds, blockerId \in ArgIds : block(id, blockerId)
    \/ clock < MaxCmdClock /\ \E id \in ArgIds, blockerId \in ArgIds : unblock(id, blockerId)
    \/ clock < MaxCmdClock /\ \E id \in ArgIds, a \in EditArgs : edit(id, a)
    \/ clock < MaxCmdClock /\ \E cmd \in {"list", "ready", "blocked"} : Query(cmd)
    \/ clock < MaxCmdClock /\ \E id \in ArgIds : show(id)
    \/ clock < MaxCmdClock /\ ExternalEdit(MergedFiles)

SpecCmds == Init /\ [][NextCmds]_vars

\* Commands that export, with a work.jsonl that can lose and regain its
\* write permission.
NextStale ==
    \/ clock < MaxStaleClock /\ \E a \in AddArgs : add(a)
    \/ clock < MaxStaleClock /\ \E id \in ArgIds : start(id)
    \/ clock < MaxStaleClock /\ \E id \in ArgIds, reason \in CloseReasons : close(id, reason)
    \/ clock < MaxStaleClock /\ export
    \/ clock < MaxStaleClock /\ Chmod

SpecStale == Init /\ [][NextStale]_vars
-----------------------------------------------------------------------------
\* Properties

MutatingCmds == {"add", "start", "close", "reopen", "edit", "log", "block", "unblock"}

\* The store's full contents as work items.
StoreItems(rows) == {rowToWorkItem(rows[i]) : i \in 1..Len(rows)}

AscendingIds(items) ==
    \A i, j \in 1..Len(items) :
        i < j => CastInteger(items[i].id) <= CastInteger(items[j].id)

\* C1: after a successful mutating command (add, start, close, reopen, edit,
\* log, block, unblock) every line of work.jsonl decodes, and the decoded
\* records are exactly the work items of the table, one line per item, in
\* ascending numeric ID order.
C1_FileEqualsStore ==
    (last.cmd \in MutatingCmds /\ last.res = "ok") =>
        /\ jsonl.exists
        /\ \A k \in 1..Len(jsonl.lines) : jsonl.lines[k].json
        /\ Len(decode(jsonl)) = Len(db)
        /\ Seq2Set(decode(jsonl)) = StoreItems(db)
        /\ AscendingIds(decode(jsonl))

\* A mutating command has just succeeded on a table whose rowid order is not
\* its ID order (the table was imported from a file written out of order).
C1_Witness ==
    /\ last.cmd \in MutatingCmds
    /\ last.res = "ok"
    /\ Len(db) >= 2
    /\ CastInteger(db[1].id) > CastInteger(db[2].id)

\* The table after export followed by import.
RoundTrip(rows) == importDb(rows, exportToJsonl(rows))

\* C2: export followed by import reproduces an equivalent store: the same
\* IDs, and every field of every work item equal; the empty store included.
C2_RoundTrip ==
    /\ Len(RoundTrip(db)) = Len(db)
    /\ StoreItems(RoundTrip(db)) = StoreItems(db)

\* A store whose items carry a log, a close reason (also an empty one) and a
\* blocker.
C2_Witness ==
    /\ \E i \in 1..Len(db) : db[i].log # <<>>
    /\ \E i \in 1..Len(db) : db[i].closed_reason \in {"", "done"}
    /\ \E i \in 1..Len(db) : db[i].blocked_by # <<>>

\* The IDs of the work items ready() and blocked() print.
ReadyIds == {ready(db)[k].id : k \in 1..Len(ready(db))}
BlockedIds == {blocked(db)[k].id : k \in 1..Len(blocked(db))}

\* The blockers of row r, as a set of IDs.
Blockers(r) == IF r.blocked_by = <<>> THEN {} ELSE Seq2Set(r.blocked_by[1])

\* The ID names an item of the table whose status is closed.
NamesClosed(id) == \E j \in 1..Len(db) : db[j].id = id /\ db[j].status = "closed"

\* The ID names an item of the table.
Names(id) == \E j \in 1..Len(db) : db[j].id = id

\* C3: a non-closed item with a non-empty blocked_by is in ready() iff every
\* ID of its blocked_by names a closed item, and in blocked() iff some ID of
\* its blocked_by does not name a closed item; an item with a blocker that
\* names no item is not in ready().
C3_Readiness ==
    \A i \in 1..Len(db) :
        (db[i].status # "closed" /\ Blockers(db[i]) # {}) =>
            /\ db[i].id \in ReadyIds <=> \A b \in Blockers(db[i]) : NamesClosed(b)
            /\ db[i].id \in BlockedIds <=> \E b \in Blockers(db[i]) : ~NamesClosed(b)
            /\ (\E b \in Blockers(db[i]) : ~Names(b)) => db[i].id \notin ReadyIds

\* The table holds a non-closed item that is ready because its only blocker
\* is closed, and a non-closed item held back by an open blocker.
C3_Witness ==
    /\ \E i \in 1..Len(db) :
          /\ db[i].status # "closed"
          /\ Blockers(db[i]) # {}
          /\ db[i].id \in ReadyIds
    /\ \E i \in 1..Len(db) :
          /\ db[i].status # "closed"
          /\ \E b \in Blockers(db[i]) : Names(b) /\ ~NamesClosed(b)
          /\ db[i].id \in BlockedIds

\* The rows in another insertion order.
Reordered(rows, f) == [i \in 1..Len(rows) |-> rows[f[i]]]

\* C4: nextId is the largest numeric ID of the table plus one ("001" on an
\* empty table), written with at least three digits and no more than the
\* number needs, whatever the order in which the rows were inserted.
C4_NextId ==
    LET id == nextId(db)
    IN /\ \A i \in 1..Len(db) : CastInteger(db[i].id) < CastInteger(id)
       /\ db # <<>> => \E i \in 1..Len(db) : CastInteger(db[i].id) + 1 = CastInteger(id)
       /\ db = <<>> => id = <<0, 0, 1>>
       /\ Len(id) >= 3
       /\ Len(id) > 3 => (id[1] # 0 /\ CastInteger(id) > 999)
       /\ \A f \in Permutations(1..Len(db)) : nextId(Reordered(db, f)) = id

\* A table imported out of ID order whose largest ID is beyond 999.
C4_Witness ==
    /\ Len(db) >= 2
    /\ CastInteger(db[1].id) > CastInteger(db[2].id)
    /\ \E i \in 1..Len(db) : CastInteger(db[i].id) > 999
    /\ Len(nextId(db)) = 4

\* A step of add that inserted a row, and the ID it assigned.
AddedStep == (\E a \in AddArgs : add(a)) /\ last'.res = "ok"
NewId == db'[Len(db')].id

\* C5 as claimed: every ID add assigns is numerically greater than every ID
\* add assigned earlier, also after items have disappeared from the store.
C5_NeverReassigned ==
    [][AddedStep => \A x \in assigned : CastInteger(x) < CastInteger(NewId)]_vars

\* C5 as amended: every ID add assigns is numerically greater than every ID
\* in the store at the time of the add.
C5_AboveStore ==
    [][AddedStep => \A i \in 1..Len(db) : CastInteger(db[i].id) < CastInteger(NewId)]_vars

\* add has just assigned an ID in a store from which an import has removed an
\* item that an earlier add created.
C5_Witness ==
    /\ last.cmd = "add"
    /\ last.res = "ok"
    /\ \E x \in assigned : ~Names(x)

\* C6: the IDs of the table are pairwise distinct, the ID nextId computes is
\* the ID of no row, and add is never rejected by a constraint.
C6_UniqueIds ==
    /\ \A i, j \in 1..Len(db) : i # j => db[i].id # db[j].id
    /\ ~Names(nextId(db))
    /\ ~(last.cmd = "add" /\ last.res = "constraint_error")

\* add has just inserted a row into a table imported with a four-digit and
\* an unpadded ID.
C6_Witness ==
    /\ last.cmd = "add"
    /\ last.res = "ok"
    /\ \E i \in 1..Len(db) : db[i].id = <<1>>
    /\ \E i \in 1..Len(db) : db[i].id = <<1, 0, 0, 0>>

\* C7 as claimed: import of an empty or absent work.jsonl ends without error,
\* reporting that there is nothing to import, and leaves the store empty.
C7_ImportOfNothingEmpties ==
    (last.cmd = "import" /\ (~jsonl.exists \/ jsonl.lines = <<>>)) =>
        (last.res = "nothing_to_import" /\ db = <<>>)

\* C8 as claimed: after import the table holds exactly its previous rows or
\* exactly the records of the file.
C8_ImportAtomic ==
    [][import =>
        \/ db' = db
        \/ /\ \A k \in 1..Len(jsonl.lines) : jsonl.lines[k].json
           /\ Map(rowToWorkItem, db') = decode(jsonl)]_vars

\* C9: after a successful import the work items of the table are exactly the
\* records of the file.
C9_ImportReplaces ==
    (last.cmd = "import" /\ last.res = "ok") =>
        /\ Len(db) = Len(decode(jsonl))
        /\ StoreItems(db) = Seq2Set(decode(jsonl))

\* A successful import has replaced a table that held an item created by add
\* and absent from the file.
C9_Witness ==
    /\ last.cmd = "import"
    /\ last.res = "ok"
    /\ db # <<>>
    /\ \E x \in assigned : ~Names(x)

\* The blocked_by list of the row with the given ID (empty when absent).
BlockedBy(rows, id) ==
    LET r == rows[CHOOSE i \in 1..Len(rows) : rows[i].id = id]
    IN IF r.blocked_by = <<>> THEN <<>> ELSE r.blocked_by[1]

\* C10: block(id, blockerId) ends with not-found and leaves the table and the
\* file as they were when the padded id or the padded blockerId names no item;
\* when both name an item and the blocker is not yet in id's blocked_by, the
\* padded blockerId is appended to the end of id's blocked_by.
C10_Block ==
    [][\A id, blockerId \in ArgIds :
         (last'.cmd = "block" /\ block(id, blockerId)) =>
            IF ~Names(padId(id)) \/ ~Names(padId(blockerId))
            THEN last'.res = "not_found" /\ db' = db /\ jsonl' = jsonl
            ELSE padId(blockerId) \notin Seq2Set(BlockedBy(db, padId(id))) =>
                    /\ last'.res = "ok"
                    /\ BlockedBy(db', padId(id)) =
                          Append(BlockedBy(db, padId(id)), padId(blockerId))]_vars

\* block has just appended a second blocker to an item.
C10_Witness ==
    /\ last.cmd = "block"
    /\ last.res = "ok"
    /\ \E i \in 1..Len(db) : Len(BlockedBy(db, db[i].id)) = 2

\* No ID occurs twice in the blocked_by of any row.
NoRepeatedBlocker(rows) ==
    \A i \in 1..Len(rows) :
        \A k, l \in 1..Len(BlockedBy(rows, rows[i].id)) :
            k # l => BlockedBy(rows, rows[i].id)[k] # BlockedBy(rows, rows[i].id)[l]

\* The number of occurrences of x in s.
Occurrences(s, x) == Cardinality({k \in 1..Len(s) : s[k] = x})

\* C11: block(x, y) on existing items, with y typed as 1 or as 001, leaves the
\* padded y exactly once in x's blocked_by; when it is already there the
\* command reports it and changes nothing; and neither block nor unblock
\* brings a repeated ID into any blocked_by.
C11_BlockIdempotent ==
    [][/\ \A id, blockerId \in ArgIds :
            (/\ last'.cmd = "block"
             /\ Names(padId(id))
             /\ Names(padId(blockerId))
             /\ NoRepeatedBlocker(db)
             /\ block(id, blockerId)) =>
                /\ Occurrences(BlockedBy(db', padId(id)), padId(blockerId)) = 1
                /\ padId(blockerId) \in Seq2Set(BlockedBy(db, padId(id))) =>
                       (last'.res = "noop" /\ db' = db /\ jsonl' = jsonl)
       /\ (last'.cmd \in {"block", "unblock"} /\ NoRepeatedBlocker(db)) =>
              NoRepeatedBlocker(db')]_vars

\* block has just been called for a blocker that was already in the list.
C11_Witness ==
    /\ last.cmd = "block"
    /\ last.res = "noop"
    /\ \E i \in 1..Len(db) : db[i].blocked_by # <<>>

\* s without its k-th element.
Without(s, k) == SubSeq(s, 1, k - 1) \o SubSeq(s, k + 1, Len(s))

\* The exported record with the given ID.
Exported(file, id) ==
    decode(file)[CHOOSE k \in 1..Len(file.lines) : decode(file)[k].id = id]

\* C12: unblock(id, blockerId) on an existing id whose blocked_by contains the
\* padded blockerId succeeds and removes one entry, that one, keeping the
\* others in their order; when nothing is left, blocked_by is absent (NULL in
\* the table, no property in the exported record), not an empty list.
C12_Unblock ==
    [][\A id, blockerId \in ArgIds :
         (/\ last'.cmd = "unblock"
          /\ Names(padId(id))
          /\ padId(blockerId) \in Seq2Set(BlockedBy(db, padId(id)))
          /\ unblock(id, blockerId)) =>
            LET old == BlockedBy(db, padId(id))
                new == BlockedBy(db', padId(id))
            IN /\ last'.res = "ok"
               /\ \E k \in 1..Len(old) : old[k] = padId(blockerId) /\ new = Without(old, k)
               /\ new = <<>> =>
                     /\ db'[RowIndex(db', padId(id))].blocked_by = <<>>
                     /\ Exported(jsonl', padId(id)).blocked_by = <<>>]_vars

\* unblock has just removed the only blocker of an item.
C12_Witness ==
    /\ last.cmd = "unblock"
    /\ last.res = "ok"
    /\ \E i \in 1..Len(db) : db[i].updated = clock /\ db[i].blocked_by = <<>>

\* C13 as claimed: no item's blocked_by contains the item's own ID.
C13_NoSelfBlock ==
    \A i \in 1..Len(db) : db[i].id \notin Blockers(db[i])

\* Rows i and j are two items each of which is in the other's blocked_by.
Mutual(i, j) ==
    /\ i # j
    /\ db[j].id \in Blockers(db[i])
    /\ db[i].id \in Blockers(db[j])

\* C14 as claimed: while two items are in one another's blocked_by, neither
\* of them is in ready().
C14_MutualNeverReady ==
    \A i, j \in 1..Len(db) : Mutual(i, j) => db[i].id \notin ReadyIds

\* C14 as amended: while two items are in one another's blocked_by, an item
\* of the two is not in ready() unless the other one is closed.
C14_MutualUnlessClosed ==
    \A i, j \in 1..Len(db) :
        (Mutual(i, j) /\ db[j].status # "closed") => db[i].id \notin ReadyIds

\* block has just closed a cycle between two items that are not closed.
C14_Witness ==
    /\ last.cmd = "block"
    /\ last.res = "ok"
    /\ \E i, j \in 1..Len(db) :
          Mutual(i, j) /\ db[i].status # "closed" /\ db[j].status # "closed"

\* C15 as claimed: an item with a blocked_by entry that named no item at some
\* time, and has stayed in its blocked_by since, is not in ready().
C15_DanglingForever ==
    \A e \in dangling : e[1] \notin ReadyIds

\* C15 as amended: such an item is not in ready() unless an item with the
\* entry's ID has been created since and is closed.
C15_DanglingUnlessClosed ==
    \A e \in dangling : ~NamesClosed(e[2]) => e[1] \notin ReadyIds

\* add has just created the item a blocked_by entry was naming in vain; the
\* blocked item is not closed.
C15_Witness ==
    /\ last.cmd = "add"
    /\ last.res = "ok"
    /\ \E e \in dangling :
          /\ Names(e[2])
          /\ ~NamesClosed(e[2])
          /\ ~NamesClosed(e[1])

\* C16 as claimed: an ID that is in the table is in the table after every
\* step.
C16_NeverDeleted ==
    [][\A i \in 1..Len(db) : HasRow(db', db[i].id)]_vars

\* C16 as amended: an ID that is in the table is in the table after every
\* step of a command other than import.
C16_OnlyImportDeletes ==
    [][last'.cmd # "import" => \A i \in 1..Len(db) : HasRow(db', db[i].id)]_vars

\* A command that updates one row has just succeeded on a table of several.
C16_Witness ==
    /\ last.cmd \in {"start", "close", "reopen", "edit", "log", "block", "unblock"}
    /\ last.res = "ok"
    /\ Len(db) >= 2

\* The work items of the table that a status flag selects.
WithStatus(a) ==
    {it \in StoreItems(db) :
        IF Truthy(a.status) THEN it.status = a.status ELSE it.status # "closed"}

\* Ascending by priority, ties broken by ascending numeric ID.
ByPriorityThenId(items) ==
    \A k, l \in 1..Len(items) :
        k < l =>
            \/ items[k].priority < items[l].priority
            \/ /\ items[k].priority = items[l].priority
               /\ CastInteger(items[k].id) <= CastInteger(items[l].id)

\* C17: list (called with no flag but --status) without a status returns exactly the items that are not closed,
\* list with a status exactly the items of that status, each once, ascending
\* by priority with ties broken by ascending numeric ID.
C17_List ==
    \A a \in {x \in ListArgs : x.type = Undefined /\ x.label = Undefined} :
        LET listed == list(db, a)
        IN /\ Seq2Set(listed) = WithStatus(a)
           /\ Len(listed) = Cardinality(WithStatus(a))
           /\ ByPriorityThenId(listed)

\* The table holds a closed item, and two items that are not closed of which
\* the one with the larger ID has the smaller priority number.
C17_Witness ==
    /\ \E i \in 1..Len(db) : db[i].status = "closed"
    /\ \E i, j \in 1..Len(db) :
          /\ db[i].status # "closed"
          /\ db[j].status # "closed"
          /\ db[i].priority < db[j].priority
          /\ CastInteger(db[i].id) > CastInteger(db[j].id)

\* The item has the label.
HasLabel(it, l) == it.labels # <<>> /\ l \in Seq2Set(it.labels[1])

\* C18 as claimed: list returns exactly the items that match the status rule
\* and every supplied one of the type and label filters.  (The author and
\* assignee filters have nothing to select on: the table has no such columns.)
C18_ListFilters ==
    \A a \in ListArgs :
        Seq2Set(list(db, a)) =
            {it \in WithStatus(a) :
                /\ Truthy(a.type) => it.type = a.type
                /\ Truthy(a.label) => HasLabel(it, a.label)}

\* The fields the command table of the specification lets edit set.
EditableFields == {"title", "priority", "type", "description", "author", "assignee"}

\* C19 as claimed: edit on an existing item succeeds and sets the field when
\* the field is one of title, priority, type, description, author, assignee,
\* and otherwise ends with unknown-field and leaves the table as it was.
C19_EditFields ==
    [][\A id \in ArgIds, a \in EditArgs :
         (last'.cmd = "edit" /\ Names(padId(id)) /\ edit(id, a)) =>
            IF a.field \in EditableFields
            THEN /\ last'.res = "ok"
                 /\ a.field \in DOMAIN db'[RowIndex(db', padId(id))]
                 /\ db'[RowIndex(db', padId(id))][a.field] =
                       IF a.field = "priority" THEN CastInteger(a.value) ELSE a.value
            ELSE /\ last'.res = "unknown_field"
                 /\ db' = db
                 /\ jsonl' = jsonl]_vars

\* A step of one of the commands that take the ID of the item they change.
OnItem(id) ==
    \/ start(id)
    \/ \E reason \in CloseReasons : close(id, reason)
    \/ reopen(id)
    \/ \E a \in EditArgs : edit(id, a)
    \/ \E agent \in LogAgents : log(id, agent)
    \/ \E blockerId \in ArgIds : block(id, blockerId)
    \/ \E blockerId \in ArgIds : unblock(id, blockerId)

\* C20: start, close, reopen, edit, log, block and unblock, called with an ID
\* whose padded form names no item, end with not-found and leave the table
\* and the file as they were.
C20_NotFound ==
    [][\A id \in ArgIds :
         (~Names(padId(id)) /\ OnItem(id)) =>
            (last'.res = "not_found" /\ db' = db /\ jsonl' = jsonl)]_vars

\* A command has just ended with not-found on a table that holds items, with
\* a file that is not the export of the table.
C20_Witness ==
    /\ last.cmd \in {"start", "close", "reopen", "edit", "log", "unblock"}
    /\ last.res = "not_found"
    /\ db # <<>>
    /\ jsonl # exportToJsonl(db)

\* The commands that change one item.
ItemCmds == {"start", "close", "reopen", "edit", "log", "block", "unblock"}

\* The row of the table with the given ID.
RowOf(rows, id) == rows[RowIndex(rows, id)]

\* C21: a successful start, close, reopen, edit, log, block or unblock changes
\* a row, and the row it changes gets the current time as its updated, which
\* is not earlier than its previous updated; and after every step no row's
\* updated is earlier than its created.
C21_UpdatedRefreshed ==
    [][/\ (last'.cmd \in ItemCmds /\ last'.res = "ok") =>
              /\ \E i \in 1..Len(db) : RowOf(db', db[i].id) # db[i]
              /\ \A i \in 1..Len(db) :
                    RowOf(db', db[i].id) # db[i] =>
                        /\ RowOf(db', db[i].id).updated = now
                        /\ RowOf(db', db[i].id).updated >= db[i].updated
       /\ \A i \in 1..Len(db') : db'[i].updated >= db'[i].created]_vars

\* A command has just changed an item that was created at an earlier time.
C21_Witness ==
    /\ last.cmd \in ItemCmds
    /\ last.res = "ok"
    /\ \E i \in 1..Len(db) : db[i].updated = clock /\ db[i].created < clock

\* The log of a row, as a sequence of entries.
LogOf(r) == IF r.log = <<>> THEN <<>> ELSE JSONparse(r.log)

IsPrefix(s, t) == Len(s) <= Len(t) /\ SubSeq(t, 1, Len(s)) = s

\* C22 as claimed: after every command, the previous log of every item that
\* is still in the table is a prefix of its log.
C22_LogAppendOnly ==
    [][\A i \in 1..Len(db) :
         HasRow(db', db[i].id) => IsPrefix(LogOf(db[i]), LogOf(RowOf(db', db[i].id)))]_vars

\* C22 as amended: the same after every command other than import, and a
\* successful log adds exactly one entry, at the end of one item's log.
C22_LogAppendOnlyButImport ==
    [][last'.cmd # "import" =>
         /\ \A i \in 1..Len(db) :
               /\ HasRow(db', db[i].id)
               /\ IsPrefix(LogOf(db[i]), LogOf(RowOf(db', db[i].id)))
         /\ (last'.cmd = "log" /\ last'.res = "ok") =>
               Cardinality({i \in 1..Len(db) :
                   /\ Len(LogOf(RowOf(db', db[i].id))) = Len(LogOf(db[i])) + 1
                   /\ LogOf(RowOf(db', db[i].id))[Len(LogOf(db[i])) + 1].time = now}) = 1]_vars

\* log has just added a second entry to an item's log.
C22_Witness ==
    /\ last.cmd = "log"
    /\ last.res = "ok"
    /\ \E i \in 1..Len(db) : Len(LogOf(db[i])) = 2

\* C23: reopen of an existing item, whatever its status, succeeds and leaves
\* it open with no closed_reason (NULL in the table, no property in the
\* exported record).
C23_Reopen ==
    [][\A id \in ArgIds :
         (last'.cmd = "reopen" /\ Names(padId(id)) /\ reopen(id)) =>
            /\ last'.res = "ok"
            /\ RowOf(db', padId(id)).status = "open"
            /\ RowOf(db', padId(id)).closed_reason = SqlNull
            /\ Exported(jsonl', padId(id)).closed_reason = Undefined]_vars

\* reopen has just succeeded on an item that had been changed before.
C23_Witness ==
    /\ last.cmd = "reopen"
    /\ last.res = "ok"
    /\ \E i \in 1..Len(db) :
          /\ db[i].updated = clock
          /\ db[i].created < clock - 1
          /\ db[i].status = "open"
          /\ db[i].closed_reason = SqlNull

\* The two spellings of the ID of item 001.
Unpadded == <<1>>
Padded == <<0, 0, 1>>

\* C24: a step of a command called with 1 is a step of the same command
\* called with 001, and conversely, for the item and for the blocker argument;
\* and a lookup of 1 finds the row a lookup of 001 finds.
C24_PadId ==
    [][/\ last'.cmd = "start" => (start(Unpadded) <=> start(Padded))
       /\ last'.cmd = "close" =>
             \A reason \in CloseReasons : close(Unpadded, reason) <=> close(Padded, reason)
       /\ last'.cmd = "reopen" => (reopen(Unpadded) <=> reopen(Padded))
       /\ last'.cmd = "edit" =>
             \A a \in EditArgs : edit(Unpadded, a) <=> edit(Padded, a)
       /\ last'.cmd = "log" =>
             \A agent \in LogAgents : log(Unpadded, agent) <=> log(Padded, agent)
       /\ last'.cmd = "block" =>
             \A other \in ArgIds :
                 /\ block(Unpadded, other) <=> block(Padded, other)
                 /\ block(other, Unpadded) <=> block(other, Padded)
       /\ last'.cmd = "unblock" =>
             \A other \in ArgIds :
                 /\ unblock(Unpadded, other) <=> unblock(Padded, other)
                 /\ unblock(other, Unpadded) <=> unblock(other, Padded)
       /\ RowIndex(db, padId(Unpadded)) = RowIndex(db, padId(Padded))]_vars

\* A command has just changed item 001.
C24_Witness ==
    /\ last.cmd \in ItemCmds
    /\ last.res = "ok"
    /\ \E i \in 1..Len(db) : db[i].id = Padded /\ db[i].updated = clock

\* C25: init in a directory without .work leaves an empty table and an empty
\* work.jsonl; init where .work exists leaves the table and the file as they
\* were and reports that the directory exists.
C25_Init ==
    [][last'.cmd = "init" =>
          IF fs.workDir
          THEN db' = db /\ jsonl' = jsonl /\ last'.res = "exists"
          ELSE /\ db' = <<>>
               /\ jsonl' = [exists |-> TRUE, lines |-> <<>>]
               /\ fs'.workDir
               /\ last'.res = "ok"]_vars

\* a second init has run on a table and a file that hold an item
C25_Witness ==
    /\ last.cmd = "init"
    /\ last.res = "exists"
    /\ db # <<>>
    /\ jsonl.lines # <<>>

LabelsOf(r) == IF r.labels = <<>> THEN <<>> ELSE JSONparse(r.labels)

C27_PriorityRange == \A i \in 1..Len(db) : db[i].priority \in 0..4

StaleCmds == {"add", "start", "close", "export"}

\* C29 as stated: a command that changes the table and whose export does not
\* take effect leaves a file that is the export of the table before that
\* command, so that the file lacks that one change only.
C29_OneStale ==
    [][(last'.res = "export_error" /\ db' # db) => jsonl' = exportToJsonl(db)]_vars

\* C29: a command whose export cannot write work.jsonl leaves the file as it
\* was, whatever the file lacked before; a command that changes the table or
\* an export that ends well leaves the file equal to the export of the whole
\* table.
C29_StaleUntilExported ==
    [][/\ last'.res = "export_error" => jsonl' = jsonl
       /\ (last'.cmd \in StaleCmds /\ last'.res = "ok") => jsonl' = exportToJsonl(db')]_vars

\* two items have been added and the file has neither
C29_Witness ==
    /\ last.res = "export_error"
    /\ Len(db) = Len(jsonl.lines) + 2
    /\ jsonl # exportToJsonl(db)

AllDone == \A p \in Procs : procs[p].pc = "done"

\* C30: an invocation of start that runs next to another one ends by writing
\* the export of the rows it read after its own UPDATE, whatever the table
\* holds by then; the file it leaves is the export of the table only if no
\* UPDATE has run since it read.
C30_WritesWhatItRead ==
    [][\A p \in Procs :
          (procs[p].pc = "read" /\ procs'[p].pc = "done") =>
              /\ jsonl' = exportToJsonl(procs[p].rows)
              /\ db' = db
              /\ procs[p].rows = db <=> jsonl' = exportToJsonl(db')]_vars

\* both invocations have ended and the file is not the export of the table
C30_Witness ==
    /\ AllDone
    /\ \A p \in Procs : procs[p].rows # <<>>
    /\ jsonl # exportToJsonl(db)

NonClosedIds == {db[i].id : i \in {j \in 1..Len(db) : db[j].status # "closed"}}

\* C31: ready() and blocked() have no item in common, together they hold
\* exactly the items whose status is not closed, and neither lists an item
\* twice.
C31_Partition ==
    /\ ReadyIds \cap BlockedIds = {}
    /\ ReadyIds \cup BlockedIds = NonClosedIds
    /\ Len(ready(db)) + Len(blocked(db)) = Cardinality(NonClosedIds)

\* a closed item, and a non-closed item that is ready although it has a blocker
C31_Witness ==
    /\ \E i \in 1..Len(db) : db[i].status = "closed"
    /\ \E i \in 1..Len(db) :
          /\ db[i].status # "closed"
          /\ Blockers(db[i]) # {}
          /\ db[i].id \in ReadyIds

\* C32: an item whose closed_reason is present has the status closed.
C32_ReasonOnlyWhenClosed ==
    \A i \in 1..Len(db) :
        rowToWorkItem(db[i]).closed_reason # Undefined => db[i].status = "closed"

\* C33: every ID of every blocked_by names an item of the table.
C33_BlockersExist == \A e \in EdgesOf(db) : Names(e[2])

\* block has put a blocker into a blocked_by
C33_Witness ==
    /\ last.cmd = "block"
    /\ last.res = "ok"
    /\ EdgesOf(db) # {}

\* C34: a successful start, close, reopen, edit, log, block or unblock keeps
\* the rows of the table in number and place, changes one row, and leaves that
\* row's id and created and every other row as they were.
C34_Frame ==
    [][(last'.cmd \in ItemCmds /\ last'.res = "ok") =>
          /\ Len(db') = Len(db)
          /\ \E i \in 1..Len(db) :
                /\ db'[i] # db[i]
                /\ db'[i].id = db[i].id
                /\ db'[i].created = db[i].created
                /\ \A j \in 1..Len(db) : j # i => db'[j] = db[j]]_vars

\* a command has changed one of two items; the other has its older updated
C34_Witness ==
    /\ last.cmd \in ItemCmds
    /\ last.res = "ok"
    /\ \E i, j \in 1..Len(db) : db[i].updated = clock /\ db[j].updated < clock

ReadOnlyCmds == {"list", "show", "ready", "blocked"}

\* C35: list, show, ready and blocked, a block whose blocker is already in
\* blocked_by and an unblock whose blocker is not in it leave every row of the
\* table, its updated included, and work.jsonl as they were.
C35_ReadOnly ==
    [][(\/ last'.cmd \in ReadOnlyCmds
        \/ last'.cmd \in {"block", "unblock"} /\ last'.res = "noop") =>
          (db' = db /\ jsonl' = jsonl)]_vars

\* a block or unblock that had nothing to do has run on a table that
\* work.jsonl is not the export of
C35_Witness ==
    /\ last.cmd \in {"block", "unblock"}
    /\ last.res = "noop"
    /\ db # <<>>
    /\ jsonl # exportToJsonl(db)

\* C37: close(id, reason) on an existing item, whatever its status and its
\* earlier closed_reason, leaves it closed with the given reason as its
\* closed_reason, and with no closed_reason when none (or an empty one) is
\* given.
C37_Close ==
    [][\A id \in ArgIds, reason \in CloseReasons :
          (last'.cmd = "close" /\ Names(padId(id)) /\ close(id, reason)) =>
              LET r == RowOf(db', padId(id))
              IN /\ r.status = "closed"
                 /\ r.closed_reason = reason
                 /\ rowToWorkItem(r).closed_reason =
                       IF reason \in {SqlNull, ""} THEN Undefined ELSE reason]_vars

\* an item closed with a reason has been closed again without one
C37_Witness ==
    /\ last.cmd = "close"
    /\ last.res = "ok"
    /\ clock >= 3
    /\ \E i \in 1..Len(db) :
          /\ db[i].status = "closed"
          /\ db[i].closed_reason = SqlNull
          /\ db[i].updated = clock

WellFormed(line) == line.json /\ line.item.title # Undefined

\* C36: an import of a file with a line that is not a well-formed record (not
\* JSON, or a record without title) fails and leaves every row of the table
\* as it was.
C36_MalformedLeavesStore ==
    [][(/\ last'.cmd = "import"
        /\ jsonl.exists
        /\ \E k \in 1..Len(jsonl.lines) : ~WellFormed(jsonl.lines[k])) =>
          (last'.res # "ok" /\ db' = db)]_vars

\* C38: no two rows of the table have the same ID, whatever the interleaving
\* of two add invocations; when both have computed the same ID and both have
\* ended, the item of exactly one of them is in the table under that ID.
C38_OneInsertWins ==
    /\ \A i, j \in 1..Len(db) : db[i].id = db[j].id => i = j
    /\ (AllDone /\ procs[1].cmd = "add" /\ procs[2].cmd = "add"
           /\ procs[1].id = procs[2].id) =>
          /\ Cardinality({p \in Procs : procs[p].rows # <<>>}) = 1
          /\ Cardinality({i \in 1..Len(db) : db[i].id = procs[1].id}) = 1

\* both invocations computed the same ID, and the INSERT of the second was
\* rejected
C38_Witness ==
    /\ AllDone
    /\ procs[1].cmd = "add" /\ procs[2].cmd = "add"
    /\ procs[1].id = procs[2].id
    /\ last = [cmd |-> "add", res |-> "constraint_error"]

\* C39: an import that follows an export of a non-empty table succeeds, leaves
\* the file as it is, and leaves a table whose export is that file, line for
\* line and field for field.
C39_ImportExport ==
    [][(/\ last.cmd = "export"
        /\ last.res = "ok"
        /\ db # <<>>
        /\ last'.cmd = "import") =>
          /\ last'.res = "ok"
          /\ jsonl' = jsonl
          /\ exportToJsonl(db') = jsonl]_vars

\* three records, loaded from a file out of ID order, exported and imported
\* again
C39_Witness ==
    /\ last = [cmd |-> "import", res |-> "ok"]
    /\ Len(db) = 3
    /\ jsonl = exportToJsonl(db)
====
